---- MODULE Spec2Model ----
(***************************************************************************)
(* dimod: the Composite capability (dimod/core/composite.py) and the       *)
(* exhaustive reference sampler ExactSolver                                *)
(* (dimod/reference/samplers/exact_solver.py).                             *)
(*                                                                         *)
(* Numbers: every bias and energy is held in units of 0.5, so that the     *)
(* docstring example h = {a: -0.5, b: 1.0}, J = {(a, b): -1.5} is the      *)
(* integer model linear = (a: -1, b: 2), quadratic = ({a, b}: -3) and its  *)
(* energies -2.0, -1.0, 0.0, 3.0 are -4, -2, 0, 6.  All the values used    *)
(* are small dyadic rationals, on which float arithmetic is exact.         *)
(*                                                                         *)
(* The quadratic model, its energy function, the vartype and the SampleSet *)
(* constructors are collaborators of the two files; they are modelled from *)
(* their contracts (section "collaborators" below).                        *)
(***************************************************************************)
EXTENDS Integers, Sequences, FiniteSets

VARIABLES
    properties,   \* ExactSolver.properties, per sampler instance
    parameters,   \* ExactSolver.parameters, per sampler instance
    pc,           \* per call slot: position of the call in sample()
    self,         \* per call slot: the sampler instance that serves the call
    via,          \* per call slot: "direct" or "composite"
    bqm,          \* per call slot: the argument of sample()
    n,            \* per call slot: local n of sample()
    samples,      \* per call slot: local samples of sample()
    response,     \* per call slot: local response / the returned value
    error,        \* per call slot: the exception a composed call raised
    constructed,  \* the composite exists
    children,     \* Composite.children of the composite
    given,        \* the list the composite was constructed with
    lastOp,       \* the last operation on the composite
    lastOutcome,  \* what that operation returned or raised
    accessLog     \* the outcomes of the accesses of Composite.child, in order

solverVars == <<properties, parameters>>
callVars == <<pc, self, via, bqm, n, samples, response, error>>
compositeVars == <<constructed, children, given, lastOp, lastOutcome, accessLog>>
vars == <<properties, parameters, pc, self, via, bqm, n, samples, response,
          error, constructed, children, given, lastOp, lastOutcome, accessLog>>

(***************************************************************************)
(* Bounds                                                                  *)
(***************************************************************************)
MaxVars == 3
NumThreads == 2
NumSamplers == 2
MaxChildren == 2
MaxAccesses == 2

Threads == 1..NumThreads
Samplers == 1..NumSamplers

(***************************************************************************)
(* Values                                                                  *)
(***************************************************************************)
\* Python's None and a bound local, as sequences of length 0 and 1.
None == <<>>
Some(x) == <<x>>

\* An empty dict, as a set of (key, value) pairs.
EmptyMap == {}

Range(s) == {s[i] : i \in DOMAIN s}
Reverse(s) == [i \in 1..Len(s) |-> s[Len(s) + 1 - i]]
IndexOf(s, x) == CHOOSE i \in DOMAIN s : s[i] = x

RECURSIVE Pow2(_)
Pow2(k) == IF k = 0 THEN 1 ELSE 2 * Pow2(k - 1)

RECURSIVE SumOver(_, _)
SumOver(S, f) ==
    IF S = {} THEN 0
    ELSE LET x == CHOOSE y \in S : TRUE IN f[x] + SumOver(S \ {x}, f)

(***************************************************************************)
(* Collaborators: vartype, quadratic model, SampleSet                      *)
(***************************************************************************)
\* Vartype.value in iteration order.  SPIN iterates +1 before -1: rows 0..3 of
\* the ExactSolver docstring example are (+1,+1), (+1,-1), (-1,+1), (-1,-1).
VartypeValue(vartype) == IF vartype = "SPIN" THEN <<1, -1>> ELSE <<0, 1>>
Vartypes == {"SPIN", "BINARY"}

\* Variable labels; a model of k variables holds the first k of them, inserted
\* in this order or in the reverse order.
VarPool == <<"a", "b", "c", "d", "e">>
Rank(v) == IndexOf(VarPool, v)
Prefix(k) == SubSeq(VarPool, 1, k)
Orders(k) == {Prefix(k), Reverse(Prefix(k))}
Pairs(S) == {p \in SUBSET S : Cardinality(p) = 2}

LinearBiases == {-1, 2}
QuadraticBiases == {-3, 0}
Offsets == {0, 1}

BQMsOfSize(k) ==
    {[variables |-> o, linear |-> l, quadratic |-> q, offset |-> c, vartype |-> vt] :
        o \in Orders(k),
        l \in [Range(Prefix(k)) -> LinearBiases],
        q \in [Pairs(Range(Prefix(k))) -> QuadraticBiases],
        c \in Offsets,
        vt \in Vartypes}

\* The models a sequential caller samples.
BQMs == UNION {BQMsOfSize(k) : k \in 0..MaxVars}

\* The models of the docstring's shape: alternating linear biases -0.5, 1.0,
\* a coupling of -1.5 between neighbours, offset 0; as an Ising model with the
\* variables in order, and as a binary model with the variables in reverse order.
ExampleBQMsOfSize(k) ==
    {[variables |-> IF vt = "SPIN" THEN Prefix(k) ELSE Reverse(Prefix(k)),
      linear |-> [v \in Range(Prefix(k)) |-> IF Rank(v) % 2 = 1 THEN -1 ELSE 2],
      quadratic |-> [p \in Pairs(Range(Prefix(k))) |->
                        IF \E u \in p : \E w \in p : Rank(w) = Rank(u) + 1
                        THEN -3 ELSE 0],
      offset |-> 0,
      vartype |-> vt] : vt \in Vartypes}

ExampleBQMs == UNION {ExampleBQMsOfSize(k) : k \in 0..MaxVars}

\* h = {'a': -0.5, 'b': 1.0}, J = {('a', 'b'): -1.5}, sample_ising.
DocstringBQM ==
    [variables |-> <<"a", "b">>,
     linear |-> [v \in {"a", "b"} |-> IF v = "a" THEN -1 ELSE 2],
     quadratic |-> [p \in {{"a", "b"}} |-> -3],
     offset |-> 0,
     vartype |-> "SPIN"]

\* len(bqm)
BqmLen(b) == Len(b.variables)

\* bqm.energy(x), x a map from the variables to their values.
Energy(b, x) ==
    LET lin == [v \in DOMAIN b.linear |-> b.linear[v] * x[v]]
        quad == [p \in DOMAIN b.quadratic |->
                    LET u == CHOOSE y \in p : TRUE
                        w == CHOOSE y \in p : y # u
                    IN b.quadratic[p] * x[u] * x[w]]
    IN SumOver(DOMAIN lin, lin) + SumOver(DOMAIN quad, quad) + b.offset

\* A row of a samples matrix read under its column labels.
AsAssignment(sample, labels) ==
    [v \in Range(labels) |-> sample[IndexOf(labels, v)]]

\* SampleSet.from_samples(samples, vartype, energy=energy), unlabelled rows.
FromSamples(rows, vartype, energy) ==
    [samples |-> rows,
     energy |-> energy,
     num_occurrences |-> [i \in 1..Len(rows) |-> 1],
     variables |-> <<>>,
     vartype |-> vartype]

\* SampleSet.from_samples_bqm((samples, labels), bqm)
FromSamplesBqm(samples_like, b) ==
    LET rows == samples_like[1]
        labels == samples_like[2]
    IN [samples |-> rows,
        energy |-> [i \in 1..Len(rows) |-> Energy(b, AsAssignment(rows[i], labels))],
        num_occurrences |-> [i \in 1..Len(rows) |-> 1],
        variables |-> labels,
        vartype |-> b.vartype]

(***************************************************************************)
(* ExactSolver.sample, its expressions                                     *)
(***************************************************************************)
\* itertools.product(pool, repeat=r):
\*   result = [[]]; for each of the r pools: result = [x+[y] for x in result for y in pool]
RECURSIVE ItertoolsProduct(_, _)
ItertoolsProduct(pool, r) ==
    IF r = 0 THEN << <<>> >>
    ELSE LET prev == ItertoolsProduct(pool, r - 1)
             m == Len(pool)
         IN [i \in 1..(Len(prev) * m) |->
                Append(prev[((i - 1) \div m) + 1], pool[((i - 1) % m) + 1])]

\* if n == 0
IsEmptyModel_never(k) == FALSE
IsEmptyModel(k) == k = 0

\* bqm.vartype.value
Pool_binary(b) == VartypeValue("BINARY")
Pool(b) == VartypeValue(b.vartype)

\* itertools.combinations_with_replacement in place of itertools.product
EnumerateSamples_cwr(pool, k) ==
    SelectSeq(ItertoolsProduct(pool, k),
              LAMBDA s : \A i \in 1..(Len(s) - 1) :
                            IndexOf(pool, s[i]) <= IndexOf(pool, s[i + 1]))
\* the tuples built last position first
EnumerateSamples_reversed(pool, k) ==
    [i \in 1..Len(ItertoolsProduct(pool, k)) |-> Reverse(ItertoolsProduct(pool, k)[i])]
\* list(itertools.product(bqm.vartype.value, repeat=n))
EnumerateSamples(pool, k) == ItertoolsProduct(pool, k)

\* sorted(bqm) in place of list(bqm)
Labels_sorted(b) ==
    [i \in 1..Len(b.variables) |->
        CHOOSE v \in Range(b.variables) :
            Cardinality({w \in Range(b.variables) : Rank(w) < Rank(v)}) = i - 1]
\* list(bqm)
Labels(b) == b.variables

\* The whole of sample(bqm), run alone.
ExactSolverSample(b) ==
    IF IsEmptyModel(BqmLen(b))
    THEN FromSamples(<<>>, b.vartype, <<>>)
    ELSE FromSamplesBqm(<<EnumerateSamples(Pool(b), BqmLen(b)), Labels(b)>>, b)

(***************************************************************************)
(* Composite.child                                                         *)
(***************************************************************************)
Value(v) == [kind |-> "value", value |-> v, msg |-> ""]
Raise(kind, msg) == [kind |-> kind, value |-> <<>>, msg |-> msg]
MissingChild == "A Composite must have at least one child Sampler"

\* return self.children[-1]
Child_last(cs) ==
    IF Len(cs) = 0 THEN Raise("RuntimeError", MissingChild)
    ELSE Value(<<cs[Len(cs)]>>)
\* return self.children[0], the IndexError not caught
Child_uncaught(cs) ==
    IF Len(cs) = 0 THEN Raise("IndexError", "list index out of range")
    ELSE Value(<<cs[1]>>)
\* try: return self.children[0]
\* except IndexError: raise RuntimeError(...)
Child(cs) ==
    IF Len(cs) = 0 THEN Raise("RuntimeError", MissingChild)
    ELSE Value(<<cs[1]>>)

(***************************************************************************)
(* Initial state: the sampler instances constructed, no call in progress,  *)
(* no composite yet.                                                       *)
(***************************************************************************)
Init ==
    /\ properties = [s \in Samplers |-> EmptyMap]
    /\ parameters = [s \in Samplers |-> EmptyMap]
    /\ pc = [t \in Threads |-> "idle"]
    /\ self = [t \in Threads |-> None]
    /\ via = [t \in Threads |-> "direct"]
    /\ bqm = [t \in Threads |-> None]
    /\ n = [t \in Threads |-> None]
    /\ samples = [t \in Threads |-> None]
    /\ response = [t \in Threads |-> None]
    /\ error = [t \in Threads |-> None]
    /\ constructed = FALSE
    /\ children = <<>>
    /\ given = <<>>
    /\ lastOp = "none"
    /\ lastOutcome = Value(<<>>)
    /\ accessLog = <<>>

(***************************************************************************)
(* ExactSolver.sample(bqm), statement by statement.  The locals n, samples *)
(* and response belong to the call; the instance is self.                  *)
(***************************************************************************)
Arg(t) == bqm[t][1]

\* sampler.sample(bqm) is entered.
Call(t, s, b) ==
    /\ pc[t] = "idle"
    /\ pc' = [pc EXCEPT ![t] = "L84"]
    /\ self' = [self EXCEPT ![t] = Some(s)]
    /\ via' = [via EXCEPT ![t] = "direct"]
    /\ bqm' = [bqm EXCEPT ![t] = Some(b)]
    /\ n' = [n EXCEPT ![t] = None]
    /\ samples' = [samples EXCEPT ![t] = None]
    /\ response' = [response EXCEPT ![t] = None]
    /\ error' = [error EXCEPT ![t] = None]
    /\ UNCHANGED <<solverVars, compositeVars>>

\* n = len(bqm); if n == 0:
SampleLen(t) ==
    /\ pc[t] = "L84"
    /\ n' = [n EXCEPT ![t] = Some(BqmLen(Arg(t)))]
    /\ pc' = [pc EXCEPT ![t] = IF IsEmptyModel(BqmLen(Arg(t))) THEN "L86" ELSE "L87"]
    /\ UNCHANGED <<solverVars, compositeVars, self, via, bqm, samples, response, error>>

\* return SampleSet.from_samples([], bqm.vartype, energy=[])
ReturnEmpty(t) ==
    /\ pc[t] = "L86"
    /\ response' = [response EXCEPT ![t] = Some(FromSamples(<<>>, Arg(t).vartype, <<>>))]
    /\ pc' = [pc EXCEPT ![t] = "done"]
    /\ UNCHANGED <<solverVars, compositeVars, self, via, bqm, n, samples, error>>

\* self.properties['samples'] = samples = list(itertools.product(...))
Enumerate_onInstance(t) ==
    /\ pc[t] = "L87"
    /\ samples' = [samples EXCEPT ![t] = Some(EnumerateSamples(Pool(Arg(t)), n[t][1]))]
    /\ properties' = [properties EXCEPT ![self[t][1]] =
                         {<<"samples", EnumerateSamples(Pool(Arg(t)), n[t][1])>>}]
    /\ pc' = [pc EXCEPT ![t] = "L88"]
    /\ UNCHANGED <<parameters, compositeVars, self, via, bqm, n, response, error>>
\* samples = list(itertools.product(bqm.vartype.value, repeat=n))
Enumerate(t) ==
    /\ pc[t] = "L87"
    /\ samples' = [samples EXCEPT ![t] = Some(EnumerateSamples(Pool(Arg(t)), n[t][1]))]
    /\ pc' = [pc EXCEPT ![t] = "L88"]
    /\ UNCHANGED <<solverVars, compositeVars, self, via, bqm, n, response, error>>

\* response = SampleSet.from_samples_bqm((samples, list(bqm)), bqm); return response
Assemble(t) ==
    /\ pc[t] = "L88"
    /\ response' = [response EXCEPT ![t] =
                       Some(FromSamplesBqm(<<samples[t][1], Labels(Arg(t))>>, Arg(t)))]
    /\ pc' = [pc EXCEPT ![t] = "done"]
    /\ UNCHANGED <<solverVars, compositeVars, self, via, bqm, n, samples, error>>

\* The caller lets go of what the call returned or raised.
Discard(t) ==
    /\ pc[t] \in {"done", "raised"}
    /\ pc' = [pc EXCEPT ![t] = "idle"]
    /\ self' = [self EXCEPT ![t] = None]
    /\ via' = [via EXCEPT ![t] = "direct"]
    /\ bqm' = [bqm EXCEPT ![t] = None]
    /\ n' = [n EXCEPT ![t] = None]
    /\ samples' = [samples EXCEPT ![t] = None]
    /\ response' = [response EXCEPT ![t] = None]
    /\ error' = [error EXCEPT ![t] = None]
    /\ UNCHANGED <<solverVars, compositeVars>>

(***************************************************************************)
(* The composite: a concrete composed sampler that stores the list it is   *)
(* given as children and whose sample() delegates to self.child.sample.    *)
(***************************************************************************)
ChildLists == UNION {[1..k -> Samplers] : k \in 0..MaxChildren}

\* __init__ that refuses an empty list
Construct_eager(cs) ==
    /\ ~constructed
    /\ constructed' = (cs # <<>>)
    /\ children' = cs
    /\ given' = cs
    /\ lastOp' = "construct"
    /\ lastOutcome' = IF cs = <<>> THEN Raise("RuntimeError", MissingChild) ELSE Value(<<>>)
    /\ UNCHANGED <<solverVars, callVars, accessLog>>
\* children = None; def __init__(self, ...): self.children = [...]
Construct(cs) ==
    /\ ~constructed
    /\ constructed' = TRUE
    /\ children' = cs
    /\ given' = cs
    /\ lastOp' = "construct"
    /\ lastOutcome' = Value(<<>>)
    /\ UNCHANGED <<solverVars, callVars, accessLog>>

\* composite.children
ReadChildren ==
    /\ constructed
    /\ lastOp' = "children"
    /\ lastOutcome' = Value(children)
    /\ UNCHANGED <<solverVars, callVars, constructed, children, given, accessLog>>

\* composite.child
AccessChild ==
    /\ constructed
    /\ Len(accessLog) < MaxAccesses
    /\ lastOp' = "child"
    /\ lastOutcome' = Child(children)
    /\ accessLog' = Append(accessLog, Child(children))
    /\ UNCHANGED <<solverVars, callVars, constructed, children, given>>

\* sample() as the docstring prints it: response = None; return response
ComposedCall_noDelegate(t, b) ==
    /\ constructed
    /\ pc[t] = "idle"
    /\ pc' = [pc EXCEPT ![t] = "done"]
    /\ via' = [via EXCEPT ![t] = "composite"]
    /\ bqm' = [bqm EXCEPT ![t] = Some(b)]
    /\ UNCHANGED <<solverVars, compositeVars, self, n, samples, response, error>>
\* composed.sample(bqm): return self.child.sample(bqm)
ComposedCall(t, b) ==
    /\ constructed
    /\ pc[t] = "idle"
    /\ via' = [via EXCEPT ![t] = "composite"]
    /\ bqm' = [bqm EXCEPT ![t] = Some(b)]
    /\ IF Child(children).kind = "value"
       THEN /\ self' = [self EXCEPT ![t] = Some(Child(children).value[1])]
            /\ pc' = [pc EXCEPT ![t] = "L84"]
            /\ error' = error
       ELSE /\ self' = self
            /\ pc' = [pc EXCEPT ![t] = "raised"]
            /\ error' = [error EXCEPT ![t] = Some(Child(children))]
    /\ UNCHANGED <<solverVars, compositeVars, n, samples, response>>

(***************************************************************************)
(* Specifications                                                          *)
(***************************************************************************)
\* No other call is in progress or pending.
Sequential(t) == \A u \in Threads \ {t} : pc[u] = "idle"

\* Every call in progress is on instance s.
SharedInstance(s) == \A u \in Threads : pc[u] # "idle" => self[u] = Some(s)

\* Call slots are interchangeable: a new call takes the lowest free one.
FreeSlot(t) == pc[t] = "idle" /\ \A u \in Threads : u < t => pc[u] # "idle"

DirectCall ==
    \E t \in Threads :
        /\ FreeSlot(t)
        /\ Sequential(t)
        /\ \E s \in Samplers, b \in BQMs : Call(t, s, b)
SharedCall ==
    \E t \in Threads :
        /\ FreeSlot(t)
        /\ \E s \in Samplers, b \in ExampleBQMs : SharedInstance(s) /\ Call(t, s, b)
ExampleCall ==
    \E t \in Threads :
        /\ FreeSlot(t)
        /\ Sequential(t)
        /\ \E s \in Samplers, b \in ExampleBQMs : Call(t, s, b)
DelegatedCall ==
    \E t \in Threads :
        /\ FreeSlot(t)
        /\ Sequential(t)
        /\ \E b \in ExampleBQMs : ComposedCall(t, b)
DoSampleLen == \E t \in Threads : SampleLen(t)
DoReturnEmpty == \E t \in Threads : ReturnEmpty(t)
DoEnumerate == \E t \in Threads : Enumerate(t)
DoAssemble == \E t \in Threads : Assemble(t)
DoDiscard == \E t \in Threads : Discard(t)
DoConstruct == \E cs \in ChildLists : Construct(cs)

\* One call at a time, on any instance, over every model of the bounds.
Next ==
    \/ DirectCall
    \/ DoSampleLen
    \/ DoReturnEmpty
    \/ DoEnumerate
    \/ DoAssemble
    \/ DoDiscard

Spec == Init /\ [][Next]_vars

\* Calls interleaved on one shared instance.
NextConcurrent ==
    \/ SharedCall
    \/ DoSampleLen
    \/ DoReturnEmpty
    \/ DoEnumerate
    \/ DoAssemble
    \/ DoDiscard

SpecConcurrent == Init /\ [][NextConcurrent]_vars

\* A composite, its accessors, and calls through it and past it.
NextComposite ==
    \/ DoConstruct
    \/ ReadChildren
    \/ AccessChild
    \/ DelegatedCall
    \/ ExampleCall
    \/ DoSampleLen
    \/ DoReturnEmpty
    \/ DoEnumerate
    \/ DoAssemble
    \/ DoDiscard

SpecComposite == Init /\ [][NextComposite]_vars

(***************************************************************************)
(* Claims about ExactSolver.sample                                         *)
(***************************************************************************)
Returned(t) == pc[t] = "done" /\ response[t] # None
Result(t) == response[t][1]

\* C1: for a model of n >= 1 variables, sample returns exactly 2^n samples, no
\* two of them the same assignment, and together they are every length-n
\* assignment over the two values of the model's domain.
C1_AllAssignmentsOnce ==
    \A t \in Threads :
        (pc[t] = "done" /\ BqmLen(Arg(t)) >= 1) =>
            /\ response[t] # None
            /\ Len(Result(t).samples) = Pow2(BqmLen(Arg(t)))
            /\ \A i \in DOMAIN Result(t).samples : \A j \in DOMAIN Result(t).samples :
                   i # j => Result(t).samples[i] # Result(t).samples[j]
            /\ \A x \in [1..BqmLen(Arg(t)) -> Range(VartypeValue(Arg(t).vartype))] :
                   \E i \in DOMAIN Result(t).samples :
                       \A j \in 1..BqmLen(Arg(t)) : Result(t).samples[i][j] = x[j]
            /\ \A i \in DOMAIN Result(t).samples :
                   /\ Len(Result(t).samples[i]) = BqmLen(Arg(t))
                   /\ \A j \in 1..BqmLen(Arg(t)) :
                          Result(t).samples[i][j] \in Range(VartypeValue(Arg(t).vartype))

C1_Witness ==
    \E t \in Threads :
        /\ Returned(t)
        /\ BqmLen(Arg(t)) = 3
        /\ Len(Result(t).samples) = 8

\* C2: the energy reported for a sample is the model's energy of that
\* assignment, position i of the sample read as the value of the i-th variable
\* of the model's iteration order.
C2_EnergyOfAssignment ==
    \A t \in Threads :
        Returned(t) =>
            /\ Len(Result(t).energy) = Len(Result(t).samples)
            /\ \A i \in DOMAIN Result(t).samples :
                   Result(t).energy[i] =
                       Energy(Arg(t), [v \in Range(Arg(t).variables) |->
                                          Result(t).samples[i][IndexOf(Arg(t).variables, v)]])

C2_Witness ==
    \E t \in Threads :
        /\ Returned(t)
        /\ Arg(t).variables = <<"c", "b", "a">>
        /\ Arg(t).linear["a"] # Arg(t).linear["c"]
        /\ Arg(t).quadratic[{"a", "b"}] # 0
        /\ Arg(t).offset = 1
        /\ Len(Result(t).energy) = 8

\* C3: for a model of 0 variables, sample returns a result of 0 samples and no
\* energies, tagged with the model's domain, and enumerates nothing.
C3_EmptyModel ==
    \A t \in Threads :
        (pc[t] = "done" /\ BqmLen(Arg(t)) = 0) =>
            /\ response[t] # None
            /\ Result(t).samples = <<>>
            /\ Result(t).energy = <<>>
            /\ Result(t).vartype = Arg(t).vartype
            /\ samples[t] = None

C3_Witness ==
    \E t \in Threads :
        /\ Returned(t)
        /\ Arg(t).variables = <<>>
        /\ Arg(t).vartype = "SPIN"
        /\ Arg(t).offset = 1

\* C6: for the Ising model h = {a: -0.5, b: 1.0}, J = {(a, b): -1.5}, offset 0,
\* sample returns 4 samples with energies -2.0, -1.0, 0.0, 3.0, one of each:
\* (-1,-1) -> -2.0, (+1,+1) -> -1.0, (+1,-1) -> 0.0, (-1,+1) -> 3.0
\* (in units of 0.5: -4, -2, 0, 6).
C6_DocstringExample ==
    \A t \in Threads :
        (pc[t] = "done" /\ Arg(t) = DocstringBQM) =>
            /\ response[t] # None
            /\ Len(Result(t).samples) = 4
            /\ Len(Result(t).energy) = 4
            /\ \A e \in {-4, -2, 0, 6} :
                   Cardinality({i \in 1..4 : Result(t).energy[i] = e}) = 1
            /\ \A i \in 1..4 :
                   Result(t).energy[i] =
                       CASE Result(t).samples[i] = <<-1, -1>> -> -4
                         [] Result(t).samples[i] = <<1, 1>> -> -2
                         [] Result(t).samples[i] = <<1, -1>> -> 0
                         [] Result(t).samples[i] = <<-1, 1>> -> 6
                         [] OTHER -> 99

C6_Witness ==
    \E t \in Threads :
        /\ Returned(t)
        /\ Arg(t) = DocstringBQM
        /\ Result(t).variables = <<"a", "b">>
        /\ Result(t).energy = <<-2, 0, 6, -4>>

\* C9: for n >= 1 the records are the assignments in the order of the
\* lexicographic product of the domain's two values (first position outermost,
\* last position fastest), one record per assignment, each with occurrence
\* count 1, and the columns are labelled by the model's variables in iteration
\* order.
C9_LexicographicRecords ==
    \A t \in Threads :
        (pc[t] = "done" /\ BqmLen(Arg(t)) >= 1) =>
            /\ response[t] # None
            /\ Result(t).samples =
                   [i \in 1..Pow2(BqmLen(Arg(t))) |->
                       [j \in 1..BqmLen(Arg(t)) |->
                           VartypeValue(Arg(t).vartype)[
                               (((i - 1) \div Pow2(BqmLen(Arg(t)) - j)) % 2) + 1]]]
            /\ Result(t).num_occurrences = [i \in 1..Pow2(BqmLen(Arg(t))) |-> 1]
            /\ Len(Result(t).energy) = Pow2(BqmLen(Arg(t)))
            /\ Result(t).variables = Arg(t).variables

C9_Witness ==
    \E t \in Threads :
        /\ Returned(t)
        /\ Arg(t).vartype = "BINARY"
        /\ Arg(t).variables = <<"c", "b", "a">>
        /\ Result(t).samples[2] = <<0, 0, 1>>
        /\ Result(t).samples[5] = <<1, 0, 0>>

\* C8: properties and parameters of an ExactSolver are empty maps after
\* construction and no sample call changes them; under any interleaving of
\* calls on one shared instance each call returns what it returns run alone.
C8_StatelessSharedInstance ==
    /\ \A s \in Samplers : properties[s] = EmptyMap /\ parameters[s] = EmptyMap
    /\ \A t \in Threads :
           pc[t] = "done" => response[t] = Some(ExactSolverSample(Arg(t)))

C8_Witness ==
    \E t \in Threads : \E u \in Threads :
        /\ t # u
        /\ pc[t] = "L88"
        /\ pc[u] = "L88"
        /\ self[t] = self[u]
        /\ BqmLen(Arg(t)) # BqmLen(Arg(u))
        /\ properties[self[t][1]] = EmptyMap

(***************************************************************************)
(* Claims about Composite.child and composed samplers                      *)
(***************************************************************************)
\* C4: for a composite whose children list has length k >= 1, every access of
\* child returns children[0], whatever k is and however often child is read.
C4_ChildIsFirst ==
    (constructed /\ Len(children) >= 1) =>
        /\ \A i \in DOMAIN accessLog : accessLog[i] = Value(<<children[1]>>)
        /\ lastOp = "child" => lastOutcome = Value(<<children[1]>>)

C4_Witness ==
    /\ constructed
    /\ Len(children) >= 2
    /\ children[1] # children[Len(children)]
    /\ Len(accessLog) >= 2
    /\ lastOp = "child"

\* C5: for a composite whose children list is empty, every access of child
\* raises RuntimeError "A Composite must have at least one child Sampler" and
\* returns no value, each time the same.
C5_EmptyChildRaises ==
    (constructed /\ Len(children) = 0) =>
        /\ \A i \in DOMAIN accessLog :
               /\ accessLog[i].kind = "RuntimeError"
               /\ accessLog[i].msg = "A Composite must have at least one child Sampler"
               /\ accessLog[i].value = <<>>
        /\ lastOp = "child" => lastOutcome.kind = "RuntimeError"

C5_Witness ==
    /\ constructed
    /\ children = <<>>
    /\ Len(accessLog) >= 2
    /\ lastOp = "child"

C10_LazyFailure ==
    /\ lastOp \in {"construct", "children"} => lastOutcome.kind = "value"
    /\ lastOp = "construct" => constructed
    /\ lastOp = "children" => lastOutcome.value = given
    /\ lastOutcome.kind # "value" => (lastOp = "child" /\ given = <<>>)
    /\ constructed => children = given

C10_Witness ==
    /\ constructed
    /\ given = <<>>
    /\ children = <<>>
    /\ lastOp = "children"
    /\ lastOutcome = Value(<<>>)
    /\ Len(accessLog) >= 1
    /\ accessLog[1].kind = "RuntimeError"

====
